---- MODULE Spec2Model ----
(***************************************************************************)
(* Model of gribscan_harmonie/load.py: the index builder (_write_index),   *)
(* the collection indexer (_write_zarr_indexes_for_grib_files), the range  *)
(* enumerator and create_gribscan_indecies, and the loader closure         *)
(* harmonie_loader returned by create_loader.                              *)
(*                                                                         *)
(* Text (paths, identifiers, file names) is a sequence of one-character    *)
(* strings, so that slicing, replacing and joining act on characters as    *)
(* the Python code does.  A time is a whole number of hours counted from   *)
(* 2020-01-01T00:00:00.                                                    *)
(*                                                                         *)
(* The loader reaches the collection indexer with use_multiprocessing at   *)
(* its default, so the indexes of the files of one analysis time are       *)
(* always built by pool workers that run at the same time.  Time arguments *)
(* and durations are taken as utils.normalise_time_argument and            *)
(* utils.normalise_duration hand them on.                                  *)
(***************************************************************************)
EXTENDS Integers, Sequences, FiniteSets, TLC

\* ------------------------------------------------------------------------
\* Bounds of the model
\* ------------------------------------------------------------------------
MaxStop == 6
MaxCalls == 2

\* ------------------------------------------------------------------------
\* Text helpers
\* ------------------------------------------------------------------------
\* Python's None, and a present value v, as a sequence of at most one element
None == << >>

Some(v) == << v >>

Slash == "/"

RECURSIVE Flatten(_, _)
\* sep.join(parts) for a sequence of texts
Flatten(parts, sep) ==
  IF parts = << >> THEN << >>
  ELSE IF Len(parts) = 1 THEN parts[1]
  ELSE parts[1] \o sep \o Flatten(Tail(parts), sep)

RECURSIVE SplitOn(_, _, _)
\* s.split(ch): acc is the component being read
SplitOn(s, ch, acc) ==
  IF s = << >> THEN << acc >>
  ELSE IF Head(s) = ch THEN << acc >> \o SplitOn(Tail(s), ch, << >>)
  ELSE SplitOn(Tail(s), ch, Append(acc, Head(s)))

\* str.replace(ch, "")
Replace(s, ch) == SelectSeq(s, LAMBDA c : c # ch)

\* s[1:]
DropFirst(s) == IF s = << >> THEN << >> ELSE Tail(s)

Digit(n) == << "0", "1", "2", "3", "4", "5", "6", "7", "8", "9" >>[n + 1]

TwoDigits(n) == << Digit((n \div 10) % 10), Digit(n % 10) >>

\* ------------------------------------------------------------------------
\* pathlib.PurePosixPath: a path is a root ("" or "/") and its parts
\* ------------------------------------------------------------------------
PathRoot(s) == IF s # << >> /\ Head(s) = Slash THEN << Slash >> ELSE << >>

PathParts(s) ==
  SelectSeq(SplitOn(s, Slash, << >>), LAMBDA c : c # << >> /\ c # << "." >>)

\* Path(s)
PathOf(s) == [root |-> PathRoot(s), parts |-> PathParts(s)]

\* str(path)
Str(p) ==
  IF p.parts = << >>
  THEN (IF p.root = << >> THEN << "." >> ELSE p.root)
  ELSE p.root \o Flatten(p.parts, << Slash >>)

\* path.parent
Parent(p) ==
  IF p.parts = << >> THEN p
  ELSE [p EXCEPT !.parts = SubSeq(p.parts, 1, Len(p.parts) - 1)]

\* path.name
Name(p) == IF p.parts = << >> THEN << >> ELSE p.parts[Len(p.parts)]

\* path / s, for s a text: an absolute right operand replaces the left one
Div(p, s) ==
  LET q == PathOf(s)
  IN  IF q.root # << >> THEN q
      ELSE [root |-> p.root, parts |-> p.parts \o q.parts]

\* os.path.commonpath of the texts of a non-empty sequence of paths: the
\* longest common leading run of parts.  ok is FALSE where Python raises
\* ValueError (empty sequence, or absolute and relative paths mixed).
RECURSIVE CommonParts(_, _)
CommonParts(a, b) ==
  IF a = << >> \/ b = << >> \/ Head(a) # Head(b) THEN << >>
  ELSE << Head(a) >> \o CommonParts(Tail(a), Tail(b))

RECURSIVE CommonPartsAll(_)
CommonPartsAll(ps) ==
  IF Len(ps) = 1 THEN ps[1].parts
  ELSE CommonParts(ps[1].parts, CommonPartsAll(Tail(ps)))

CommonPath(ps) ==
  IF ps = << >> \/ \E i \in 1..Len(ps) : ps[i].root # ps[1].root
  THEN [ok |-> FALSE, prefix |-> << >>]
  ELSE [ok |-> TRUE,
        prefix |-> ps[1].root \o Flatten(CommonPartsAll(ps), << Slash >>)]

\* ------------------------------------------------------------------------
\* Times and identifiers
\* ------------------------------------------------------------------------
\* pandas.Timestamp.isoformat() of hour t: YYYY-MM-DDTHH:MM:SS
IsoFormat(t) ==
  << "2", "0", "2", "0", "-", "0", "1", "-" >> \o TwoDigits(1 + (t \div 24))
    \o << "T" >> \o TwoDigits(t % 24) \o << ":", "0", "0", ":", "0", "0" >>

\* t_analysis.isoformat().replace(":", "").replace("-", "")
Identifier(t) == Replace(Replace(IsoFormat(t), ":"), "-")

RECURSIVE DateRangeExclusive(_, _, _)
\* a date range that leaves its right end out
DateRangeExclusive(start, stop, step) ==
  IF start >= stop THEN << >>
  ELSE << start >> \o DateRangeExclusive(start + step, stop, step)

RECURSIVE DateRange(_, _, _)
\* pd.date_range(start, stop, freq=step): start, start+step, ... while <= stop
DateRange(start, stop, step) ==
  IF start > stop THEN << >>
  ELSE << start >> \o DateRange(start + step, stop, step)

\* ------------------------------------------------------------------------
\* The caller's side: resolver functions, their GRIB archives, the queries
\* ------------------------------------------------------------------------
Sfc == << "s", "f", "c" >>
Pl  == << "p", "l" >>
Ml  == << "m", "l" >>

\* the order in which grib_magic lists the level types it finds
LevelOrder == << Sfc, Pl, Ml >>

LevelTypes == { LevelOrder[i] : i \in 1..Len(LevelOrder) }

AttrTimespan == "dt_collection_analysis_timespan"
AttrInterval == "dt_collection_analysis_interval"

\* the attributes a resolver function may carry: the timespan unset, None
\* or a duration in hours, the interval unset or a duration in hours
Attrs ==
  { a \in UNION { [D -> {None, Some(6)}] :
                    D \in SUBSET {AttrTimespan, AttrInterval} } :
      AttrInterval \in DOMAIN a => a[AttrInterval] # None }

Archives == {"abs", "rel"}

Resolvers == [attrs : Attrs, archive : Archives]

\* fn_source_files(t): the file named <hour><kind> of analysis time t.  The
\* "abs" archive lives under /d; the "rel" archive is addressed relative to
\* the working directory and keeps hour 0 in two directories.  Hour 5 has
\* no files.
GribFile(dir, t, kind) == PathOf(dir \o << Slash, Digit(t % 10), kind >>)

FilesAt(archive, t) ==
  IF t = 5 THEN << >>
  ELSE IF archive = "abs"
  THEN (IF t = 0
        THEN << GribFile(<< Slash, "d" >>, t, "a"),
                GribFile(<< Slash, "d" >>, t, "b") >>
        ELSE << GribFile(<< Slash, "d" >>, t, IF t % 6 = 0 THEN "c" ELSE "a") >>)
  ELSE (IF t = 0
        THEN << GribFile(<< "d" >>, t, "a"), GribFile(<< "e" >>, t, "a") >>
        ELSE << GribFile(<< "d" >>, t, IF t % 6 = 0 THEN "c" ELSE "a") >>)

\* what the GRIB messages of a file hold: its level types (by kind) ...
GribLevels(fp) ==
  LET kind == Name(fp)[2]
  IN  IF kind = "a" THEN {Sfc} ELSE IF kind = "b" THEN {Pl} ELSE {Sfc, Pl}

GribHour(fp) == CHOOSE n \in 0..9 : Digit(n) = Name(fp)[1]

\* ... and its valid times, three hours apart from the analysis time on
GribTimes(fp) ==
  LET t == GribHour(fp)
      n == IF fp.root # << >>
           THEN (IF t < 6 THEN 3 ELSE 1)
           ELSE (IF t = 0 THEN 1 ELSE 3)
  IN  [k \in 1..n |-> t + 3 * (k - 1)]

IndexRoots == { None, Some(PathOf(<< Slash, "r" >>)) }

Instant(t) == [kind |-> "instant", start |-> t, stop |-> t, step |-> None]

Range(a, b, s) == [kind |-> "range", start |-> a, stop |-> b, step |-> s]

\* the time arguments of harmonie_loader, as normalise_time_argument
\* returns them: a datetime, or a slice of datetimes with a step or None
Queries ==
  { Instant(t) : t \in {0, 3, 5} }
    \cup { Range(a, b, s) : a \in {0, 3}, b \in {0, 4, MaxStop},
                             s \in {None, Some(3)} }

\* ------------------------------------------------------------------------
\* _write_index: the path of the index of one GRIB file
\* ------------------------------------------------------------------------
IndexSuffix == << ".", "i", "n", "d", "e", "x", ".", "j", "s", "o", "n" >>

IndexPath(fp_grib, fp_grib_indecies_root) ==
  LET fn_index == Name(fp_grib) \o IndexSuffix
      fp_index_parent ==
        IF fp_grib_indecies_root # None
        THEN Div(fp_grib_indecies_root[1], DropFirst(Str(Parent(fp_grib))))
        ELSE Parent(fp_grib)
  IN  Div(fp_index_parent, fn_index)

\* gribscan.write_index: the index of a GRIB file records its source
IndexContent(fp_grib) == [kind |-> "index", src |-> fp_grib]

\* ------------------------------------------------------------------------
\* _write_zarr_indexes_for_grib_files: merging and naming
\* ------------------------------------------------------------------------
RECURSIVE SortedSeq(_)
SortedSeq(S) ==
  IF S = {} THEN << >>
  ELSE LET m == CHOOSE x \in S : \A y \in S : x <= y
       IN  << m >> \o SortedSeq(S \ {m})

SeqRange(q) == { q[i] : i \in 1..Len(q) }

\* gribscan.grib_magic(filenames, magician, global_prefix): reads the index
\* files and returns one reference structure per level type found in them
GribMagic(files, filenames, global_prefix) ==
  LET srcs == [i \in 1..Len(filenames) |-> files[filenames[i]].src]
      has(lt) == \E i \in 1..Len(srcs) : lt \in GribLevels(srcs[i])
      ref(lt) ==
        [kind |-> "zarr", level |-> lt, prefix |-> global_prefix,
         sources |-> SelectSeq(srcs, LAMBDA f : lt \in GribLevels(f)),
         time |-> SortedSeq(UNION { SeqRange(GribTimes(srcs[i])) :
                     i \in { j \in 1..Len(srcs) : lt \in GribLevels(srcs[j]) } })]
  IN  [ keys |-> SelectSeq(LevelOrder, has),
        ref  |-> [lt \in { l \in LevelTypes : has(l) } |-> ref(lt)] ]

ZarrSuffix == << ".", "z", "a", "r", "r", ".", "j", "s", "o", "n" >>

\* fn = f"{level_type}.{identifier}.zarr.json"
ZarrName(level_type, identifier) ==
  level_type \o << "." >> \o identifier \o ZarrSuffix

\* fp_zarr_json = fps_index[0].parent / fn
ZarrPath(fps_index, level_type, identifier) ==
  Div(Parent(fps_index[1]), ZarrName(level_type, identifier))

\* ------------------------------------------------------------------------
\* harmonie_loader: opening and concatenating
\* ------------------------------------------------------------------------
\* xr.open_zarr of a reference file: a dataset with a time dimension
OpenZarr(files, fp_zarr_json) ==
  [dim |-> "time", time |-> files[fp_zarr_json].time, analysis_time |-> None,
   src |-> fp_zarr_json]

\* an overlap test that is met by one shared time already
OverlapAny(a, b) == Cardinality(SeqRange(a.time) \cap SeqRange(b.time)) > 0

\* len(set(a.time.values).intersection(b.time.values)) > 1
Overlap(a, b) == Cardinality(SeqRange(a.time) \cap SeqRange(b.time)) > 1

\* ds.rename(time="valid_time") with coords["analysis_time"] = first time
AsForecast(ds) ==
  [ds EXCEPT !.dim = "valid_time", !.analysis_time = Some(ds.time[1])]

\* lines 120-138: what harmonie_loader returns for the opened datasets
Combine(datasets) ==
  IF Len(datasets) = 1
  THEN [concat |-> None, parts |-> datasets]
  ELSE IF Overlap(datasets[1], datasets[2])
  THEN [concat |-> Some("analysis_time"),
        parts |-> [i \in 1..Len(datasets) |-> AsForecast(datasets[i])]]
  ELSE [concat |-> Some("time"), parts |-> datasets]

\* ------------------------------------------------------------------------
\* create_gribscan_indecies: which analysis times a query stands for
\* ------------------------------------------------------------------------
Failure(e) == [err |-> Some(e), times |-> << >>]

\* a range enumerator that does not look at the collection span
RangeIgnoringTimespan(t_analysis, dt_collection_analysis_interval, dt_collection_analysis_timespan) ==
  IF t_analysis.step = None /\ dt_collection_analysis_interval = None
  THEN Failure("Exception")
  ELSE [err |-> None,
        times |-> DateRange(t_analysis.start, t_analysis.stop,
                            IF t_analysis.step = None
                            THEN dt_collection_analysis_interval[1]
                            ELSE t_analysis.step[1])]

\* lines 151-173 and 189-191 of the range enumerator
RangeOfAnalysisTimes(t_analysis, dt_collection_analysis_interval, dt_collection_analysis_timespan) ==
  IF t_analysis.step = None /\ dt_collection_analysis_interval = None
  THEN Failure("Exception")
  ELSE LET dt_analysis_interval ==
             IF t_analysis.step = None
             THEN dt_collection_analysis_interval[1]
             ELSE t_analysis.step[1]
       IN  IF dt_collection_analysis_timespan = None
           THEN [err |-> None,
                 times |-> DateRange(t_analysis.start, t_analysis.stop,
                                     dt_analysis_interval)]
           ELSE Failure("NotImplementedError")

\* lines 206-227 and 239: the attribute lookups and the dispatch on the query
CreateGribscanIndecies(fn_source_files, t_analysis) ==
  IF AttrTimespan \notin DOMAIN fn_source_files.attrs
  THEN Failure("AttributeError")
  ELSE LET dt_collection_analysis_timespan ==
             fn_source_files.attrs[AttrTimespan]
           dt_collection_analysis_interval ==
             IF AttrInterval \in DOMAIN fn_source_files.attrs
             THEN fn_source_files.attrs[AttrInterval]
             ELSE None
       IN  IF t_analysis.kind = "instant"
           THEN [err |-> None, times |-> << t_analysis.start >>]
           ELSE RangeOfAnalysisTimes(t_analysis,
                                     dt_collection_analysis_interval,
                                     dt_collection_analysis_timespan)

\* ------------------------------------------------------------------------
\* State
\* ------------------------------------------------------------------------
\* the calls of harmonie_loader that may be in progress at the same time
Loaders == {"L1", "L2"}

VARIABLES
  resolver,   \* fn_source_files of create_loader
  root,       \* fp_grib_indecies_root of create_loader
  files,      \* the file system: path -> content of the artifacts
  writes,     \* history: path -> how many times the path was written
  raced,      \* history: paths found missing while another write was pending
  mutated,    \* history: paths whose content changed after creation
  asked,      \* the time arguments the callers of the loader use
  parallel,   \* how many calls the callers let run at the same time
  ncalls,     \* number of calls of harmonie_loader so far
  proc        \* per call in progress: its position and local variables

vars == << resolver, root, asked, parallel, files, writes, raced, mutated, ncalls, proc >>

NoColls == [keys |-> << >>, lists |-> << >>]

Idle ==
  [pc |-> "idle", query |-> Instant(0), level |-> Sfc, times |-> << >>,
   ti |-> 0, called |-> << >>, fps_grib |-> << >>, tasks |-> << >>,
   refs |-> [keys |-> << >>, ref |-> << >>], zi |-> 0, fps_zarr |-> << >>,
   colls |-> NoColls, produced |-> << >>, zwrote |-> {},
   err |-> None, msg |-> << >>, opened |-> << >>, result |-> None]

Queued == [st |-> "queued", idx |-> None]

\* one caller with any time arguments, or callers that ask for one and the
\* same analysis time in calls that overlap
Workloads ==
  { [asked |-> Queries, parallel |-> 1] }
    \cup { [asked |-> {q}, parallel |-> Cardinality(Loaders)] :
             q \in { x \in Queries : x.kind = "instant" } }

Init ==
  /\ resolver \in Resolvers
  /\ root \in IndexRoots
  /\ \E w \in Workloads : asked = w.asked /\ parallel = w.parallel
  /\ files = << >>
  /\ writes = << >>
  /\ raced = {}
  /\ mutated = {}
  /\ ncalls = 0
  /\ proc = [l \in Loaders |-> Idle]

\* an existence test that never finds the file
ExistsNever(fs, path) == FALSE

\* path.exists()
Exists(fs, path) == path \in DOMAIN fs

\* the file system after path is written with content
Put(fs, path, content) ==
  [x \in DOMAIN fs \cup {path} |-> IF x = path THEN content ELSE fs[x]]

Count(w, path) == IF path \in DOMAIN w THEN w[path] ELSE 0

\* fps_index, once every task of the pool has returned
FpsIndex(r) == [i \in 1..Len(r.tasks) |-> r.tasks[i].idx[1]]

\* the collection index of the level type the loop of line 77 is at
CurZarrPath(r) ==
  ZarrPath(FpsIndex(r), r.refs.keys[r.zi], Identifier(r.times[r.ti]))

\* the path a worker has found missing and is about to write
Pending(r) ==
  IF r.pc = "pool"
  THEN { r.tasks[i].idx[1] : i \in { j \in 1..Len(r.tasks) : r.tasks[j].st = "missing" } }
  ELSE IF r.pc = "zarrw" THEN { CurZarrPath(r) }
  ELSE {}

PendingAll == UNION { Pending(proc[l]) : l \in Loaders }

\* ------------------------------------------------------------------------
\* Steps of one call of harmonie_loader
\* ------------------------------------------------------------------------
\* lines 176 / 228: the resolver is called for the analysis time at hand and
\* its files are handed to the pool; past the last time the loader goes on
BeginTime(r) ==
  IF r.ti > Len(r.times)
  THEN [r EXCEPT !.pc = "open"]
  ELSE LET fps == FilesAt(resolver.archive, r.times[r.ti])
       IN  [r EXCEPT !.pc = "pool",
                     !.called = Append(r.called, r.times[r.ti]),
                     !.fps_grib = fps,
                     !.tasks = [i \in 1..Len(fps) |-> Queued],
                     !.fps_zarr = << >>,
                     !.zi = 0]

RECURSIVE Collect(_, _)
\* lines 183-187 / 236-237: the paths of one analysis time join the lists
Collect(colls, fps_zarr_json) ==
  IF fps_zarr_json = << >> THEN colls
  ELSE LET e == Head(fps_zarr_json)
           c == IF e.level \in DOMAIN colls.lists
                THEN [colls EXCEPT !.lists[e.level] = Append(@, e.path)]
                ELSE [keys |-> Append(colls.keys, e.level),
                      lists |-> [x \in DOMAIN colls.lists \cup {e.level} |->
                                  IF x = e.level THEN << e.path >>
                                  ELSE colls.lists[x]]]
       IN  Collect(c, Tail(fps_zarr_json))

\* line 92 and the loop of line 174: the collection indexer returns, its
\* paths are collected and the next analysis time begins
EndTime(r) ==
  BeginTime([r EXCEPT !.colls = Collect(r.colls, r.fps_zarr), !.ti = r.ti + 1])

\* line 90: the path of this level type is kept; on to the next level type
ZarrNext(r, path) ==
  LET r1 == [r EXCEPT !.fps_zarr = Append(@, [level |-> r.refs.keys[r.zi],
                                               path |-> path]),
                      !.zi = r.zi + 1]
  IN  IF r1.zi > Len(r1.refs.keys) THEN EndTime(r1) ELSE [r1 EXCEPT !.pc = "zarr"]

\* harmonie_loader(t_analysis, level_type) is called: lines 97-104, 206-228
\* (level_type is first read on line 106 and is drawn there, in Open; which
\* of the idle loaders takes the call makes no difference, one is picked)
Call(l, t_analysis) ==
  /\ proc[l].pc = "idle"
  /\ l = CHOOSE k \in Loaders : proc[k].pc = "idle"
  /\ t_analysis \in asked
  /\ Cardinality({ k \in Loaders : proc[k].pc # "idle" }) < parallel
  /\ ncalls < MaxCalls
  /\ ncalls' = ncalls + 1
  /\ LET c == CreateGribscanIndecies(resolver, t_analysis)
         r == [Idle EXCEPT !.query = t_analysis, !.times = c.times, !.ti = 1]
     IN  proc' = [proc EXCEPT ![l] =
                    IF c.err # None
                    THEN [r EXCEPT !.pc = "error", !.err = c.err]
                    ELSE BeginTime(r)]
  /\ UNCHANGED << resolver, root, asked, parallel, files, writes, raced, mutated >>

\* _write_index in a pool worker, lines 23-29: the path and the check
WriteIndexCheck(l, i) ==
  LET r == proc[l]
      fp_index == IndexPath(r.fps_grib[i], root)
  IN  /\ r.pc = "pool"
      /\ i \in 1..Len(r.tasks)
      /\ r.tasks[i].st = "queued"
      /\ proc' = [proc EXCEPT ![l].tasks[i] =
                    [st |-> IF Exists(files, fp_index) THEN "hit" ELSE "missing",
                     idx |-> Some(fp_index)]]
      /\ raced' = IF ~Exists(files, fp_index) /\ fp_index \in PendingAll
                  THEN raced \cup {fp_index} ELSE raced
      /\ UNCHANGED << resolver, root, asked, parallel, files, writes, mutated, ncalls >>

\* the write of content to path, with its history
Write(path, content) ==
  /\ files' = Put(files, path, content)
  /\ writes' = Put(writes, path, Count(writes, path) + 1)
  /\ mutated' = IF Exists(files, path) /\ files[path] # content
                THEN mutated \cup {path} ELSE mutated

\* _write_index in a pool worker, lines 30-32: gribscan.write_index runs and
\* writes the index, or raises and leaves none
WriteIndexWrite(l, i, outcome) ==
  LET r == proc[l]
      fp_index == r.tasks[i].idx[1]
  IN  /\ r.pc = "pool"
      /\ i \in 1..Len(r.tasks)
      /\ r.tasks[i].st = "missing"
      /\ proc' = [proc EXCEPT ![l].tasks[i].st =
                    IF outcome = "ok" THEN "written" ELSE "failed"]
      /\ IF outcome = "raise"
         THEN UNCHANGED << files, writes, mutated >>
         ELSE Write(fp_index, IndexContent(r.fps_grib[i]))
      /\ UNCHANGED << resolver, root, asked, parallel, raced, ncalls >>

Returned(task) == task.st \in {"hit", "written"}

\* list(pool.imap(...)), lines 53-64: the results are taken in input order,
\* so the error of a task is raised once every task before it has returned
PoolRaises(tasks) ==
  \E i \in 1..Len(tasks) :
    /\ tasks[i].st = "failed"
    /\ \A j \in 1..(i - 1) : Returned(tasks[j])

\* a pool whose error ends the enumeration but not the call
PoolRaiseBreak(l) ==
  /\ proc[l].pc = "pool"
  /\ PoolRaises(proc[l].tasks)
  /\ proc' = [proc EXCEPT ![l].pc = "open"]
  /\ UNCHANGED << resolver, root, asked, parallel, files, writes, raced, mutated, ncalls >>

\* the error leaves the pool (which is terminated) and the call
PoolRaise(l) ==
  /\ proc[l].pc = "pool"
  /\ PoolRaises(proc[l].tasks)
  /\ proc' = [proc EXCEPT ![l].pc = "error", ![l].err = Some("write_index")]
  /\ UNCHANGED << resolver, root, asked, parallel, files, writes, raced, mutated, ncalls >>

\* lines 66-76: every index is there; common prefix and grib_magic
Merge(l) ==
  LET r == proc[l]
      cp == CommonPath(r.fps_grib)
      refs == GribMagic(files, FpsIndex(r), cp.prefix \o << Slash >>)
      r1 == [r EXCEPT !.refs = refs, !.zi = 1,
                      !.produced = Append(@, SeqRange(refs.keys))]
  IN  /\ r.pc = "pool"
      /\ \A i \in 1..Len(r.tasks) : Returned(r.tasks[i])
      /\ proc' = [proc EXCEPT ![l] =
           IF ~cp.ok
           THEN [r EXCEPT !.pc = "error", !.err = Some("ValueError:commonpath")]
           ELSE IF refs.keys = << >> THEN EndTime(r1)
           ELSE [r1 EXCEPT !.pc = "zarr"]]
      /\ UNCHANGED << resolver, root, asked, parallel, files, writes, raced, mutated, ncalls >>

\* a collection indexer that writes without looking
ZarrCheckAlways(l) ==
  /\ proc[l].pc = "zarr"
  /\ proc' = [proc EXCEPT ![l].pc = "zarrw"]
  /\ UNCHANGED << resolver, root, asked, parallel, files, writes, raced, mutated, ncalls >>

\* lines 77-83: the name of the collection index and the check
ZarrCheck(l) ==
  LET r == proc[l]
      fp_zarr_json == CurZarrPath(r)
  IN  /\ r.pc = "zarr"
      /\ proc' = [proc EXCEPT ![l] =
                    IF Exists(files, fp_zarr_json)
                    THEN ZarrNext(r, fp_zarr_json)
                    ELSE [r EXCEPT !.pc = "zarrw"]]
      /\ raced' = IF ~Exists(files, fp_zarr_json) /\ fp_zarr_json \in PendingAll
                  THEN raced \cup {fp_zarr_json} ELSE raced
      /\ UNCHANGED << resolver, root, asked, parallel, files, writes, mutated, ncalls >>

\* lines 84-90: json.dump of the reference structure
ZarrWrite(l) ==
  LET r == proc[l]
      fp_zarr_json == CurZarrPath(r)
  IN  /\ r.pc = "zarrw"
      /\ Write(fp_zarr_json, r.refs.ref[r.refs.keys[r.zi]])
      /\ proc' = [proc EXCEPT ![l] =
                    ZarrNext([r EXCEPT !.zwrote = @ \cup {r.ti}], fp_zarr_json)]
      /\ UNCHANGED << resolver, root, asked, parallel, raced, ncalls >>

\* a lookup whose message lists every level type there is
LookupAllLevels(r, level_type) ==
  IF level_type \notin SeqRange(r.colls.keys)
  THEN [r EXCEPT !.pc = "error", !.err = Some("ValueError:level_type"),
                 !.level = level_type, !.msg = LevelOrder]
  ELSE LET fps_zarr_json == r.colls.lists[level_type]
           datasets == [i \in 1..Len(fps_zarr_json) |->
                          OpenZarr(files, fps_zarr_json[i])]
       IN  [r EXCEPT !.pc = "done", !.level = level_type,
                     !.opened = datasets, !.result = Some(Combine(datasets))]

\* lines 106-138: the lookup of the level type, open_zarr and the concat
Lookup(r, level_type) ==
  IF level_type \notin SeqRange(r.colls.keys)
  THEN [r EXCEPT !.pc = "error", !.err = Some("ValueError:level_type"),
                 !.level = level_type, !.msg = r.colls.keys]
  ELSE LET fps_zarr_json == r.colls.lists[level_type]
           datasets == [i \in 1..Len(fps_zarr_json) |->
                          OpenZarr(files, fps_zarr_json[i])]
       IN  [r EXCEPT !.pc = "done", !.level = level_type,
                     !.opened = datasets, !.result = Some(Combine(datasets))]

Open(l, level_type) ==
  /\ proc[l].pc = "open"
  /\ proc' = [proc EXCEPT ![l] = Lookup(proc[l], level_type)]
  /\ UNCHANGED << resolver, root, asked, parallel, files, writes, raced, mutated, ncalls >>

\* the call is over: its result or its error is with the caller
Return(l) ==
  /\ proc[l].pc \in {"done", "error"}
  /\ proc' = [proc EXCEPT ![l] = Idle]
  /\ UNCHANGED << resolver, root, asked, parallel, files, writes, raced, mutated, ncalls >>

Next ==
  \E l \in Loaders :
    \/ \E q \in Queries : Call(l, q)
    \/ \E i \in 1..2 : WriteIndexCheck(l, i)
    \/ \E i \in 1..2, o \in {"ok", "raise"} : WriteIndexWrite(l, i, o)
    \/ PoolRaise(l)
    \/ Merge(l)
    \/ ZarrCheck(l)
    \/ ZarrWrite(l)
    \/ \E lt \in LevelTypes : Open(l, lt)
    \/ Return(l)

Spec == Init /\ [][Next]_vars

\* ------------------------------------------------------------------------
\* Properties
\* ------------------------------------------------------------------------
Active(l) == proc[l].pc # "idle"

IsRange(l) == Active(l) /\ proc[l].query.kind = "range"

Declared(attr) == attr \in DOMAIN resolver.attrs /\ resolver.attrs[attr] # None

Failed(l, e) == proc[l].pc = "error" /\ proc[l].err = Some(e)

\* nothing of the resolver or of the file system was touched by the call
Untouched(l) ==
  proc[l].called = << >> /\ proc[l].tasks = << >> /\ proc[l].zwrote = {}

\* start, start+step, ... up to the last one not after stop
ExpectedTimes(start, stop, step) ==
  IF start > stop THEN << >>
  ELSE [k \in 1..((stop - start) \div step + 1) |-> start + (k - 1) * step]

\* C1: a call of _write_index that finds the index of its file in place
\* returns the path of that index without running gribscan.write_index and
\* leaves the file system as it is.
C1_Idempotent ==
  [][\A l \in Loaders : \A i \in 1..Len(proc[l].tasks) :
       ( /\ proc[l].pc = "pool"
         /\ proc[l].tasks[i].st = "queued"
         /\ IndexPath(proc[l].fps_grib[i], root) \in DOMAIN files
         /\ proc'[l].tasks[i] # proc[l].tasks[i] )
       => ( /\ proc'[l].tasks[i] =
                 [st |-> "hit", idx |-> Some(IndexPath(proc[l].fps_grib[i], root))]
            /\ files' = files
            /\ writes' = writes )]_vars

\* a second call has found the whole index that a first call wrote
C1_Witness ==
  \E l \in Loaders : \E i \in 1..Len(proc[l].tasks) :
    /\ ncalls = 2
    /\ proc[l].pc = "pool"
    /\ proc[l].tasks[i].st = "hit"
    /\ files[proc[l].tasks[i].idx[1]] = IndexContent(proc[l].fps_grib[i])
    /\ writes[proc[l].tasks[i].idx[1]] = 1

\* the names of the collection indexes a list should hold: one per
\* analysis time whose files had the level type, in the order of the times
RECURSIVE ExpectedNames(_, _, _)
ExpectedNames(lt, called, produced) ==
  IF called = << >> THEN << >>
  ELSE (IF lt \in Head(produced)
        THEN << ZarrName(lt, Identifier(Head(called))) >> ELSE << >>)
       \o ExpectedNames(lt, Tail(called), Tail(produced))

EffectiveStep(q) ==
  IF q.step # None THEN q.step[1] ELSE resolver.attrs[AttrInterval][1]

\* C2: in a range query the analysis times start, start+step, ... <= stop
\* are resolved one after the other in ascending order, each once, and when
\* the enumeration is over the list of every level type holds its collection
\* indexes in that order.
C2_RangeOrder ==
  \A l \in Loaders :
    ( /\ IsRange(l)
      /\ ~Declared(AttrTimespan)
      /\ proc[l].query.step # None \/ Declared(AttrInterval) ) =>
      LET r == proc[l]
          expected == ExpectedTimes(r.query.start, r.query.stop,
                                    EffectiveStep(r.query))
      IN  /\ Len(r.called) <= Len(expected)
          /\ r.called = SubSeq(expected, 1, Len(r.called))
          /\ (r.pc \in {"open", "done"} \/ Failed(l, "ValueError:level_type")) =>
                /\ r.called = expected
                /\ \A lt \in DOMAIN r.colls.lists :
                     [k \in 1..Len(r.colls.lists[lt]) |-> Name(r.colls.lists[lt][k])]
                       = ExpectedNames(lt, r.called, r.produced)

Id00 == << "2", "0", "2", "0", "0", "1", "0", "1", "T", "0", "0", "0", "0", "0", "0" >>
Id03 == << "2", "0", "2", "0", "0", "1", "0", "1", "T", "0", "3", "0", "0", "0", "0" >>
Id06 == << "2", "0", "2", "0", "0", "1", "0", "1", "T", "0", "6", "0", "0", "0", "0" >>

\* the range 00:00 .. MaxStop with step 3h has been enumerated in full
C2_Witness ==
  \E l \in Loaders :
    /\ proc[l].pc = "done"
    /\ proc[l].query = Range(0, MaxStop, Some(3))
    /\ proc[l].called = << 0, 3, 6 >>
    /\ proc[l].level = Sfc
    /\ [k \in 1..3 |-> Name(proc[l].colls.lists[Sfc][k])]
         = << Sfc \o << "." >> \o Id00 \o ZarrSuffix,
              Sfc \o << "." >> \o Id03 \o ZarrSuffix,
              Sfc \o << "." >> \o Id06 \o ZarrSuffix >>

C4_MissingStep ==
  \A l \in Loaders :
    (IsRange(l) /\ proc[l].query.step = None) =>
      IF Declared(AttrInterval)
      THEN /\ ~Failed(l, "Exception")
           /\ proc[l].times # << >> =>
                proc[l].times = ExpectedTimes(proc[l].query.start,
                                              proc[l].query.stop,
                                              resolver.attrs[AttrInterval][1])
      ELSE Failed(l, "Exception") /\ Untouched(l)

\* C5: the loader fails with the level-type error exactly when the level
\* type asked for is no key of the collection; the message lists the keys
\* of the collection and no dataset is opened.
C5_LevelTypeLookup ==
  \A l \in Loaders :
    LET r == proc[l]
    IN  /\ Failed(l, "ValueError:level_type") =>
             /\ r.level \notin DOMAIN r.colls.lists
             /\ r.msg = r.colls.keys
             /\ SeqRange(r.msg) = DOMAIN r.colls.lists
             /\ Len(r.msg) = Cardinality(DOMAIN r.colls.lists)
             /\ r.opened = << >>
             /\ r.result = None
        /\ r.pc = "done" =>
             /\ r.level \in DOMAIN r.colls.lists
             /\ r.err = None
             /\ Len(r.opened) = Len(r.colls.lists[r.level])

\* the level type is missing from a collection that has other level types
C5_Witness ==
  \E l \in Loaders :
    /\ Failed(l, "ValueError:level_type")
    /\ proc[l].level = Pl
    /\ proc[l].msg = << Sfc >>

\* C6 as stated: every range query against a resolver that declares a
\* collection span fails with NotImplementedError, nothing touched.
C6_Original ==
  \A l \in Loaders :
    (IsRange(l) /\ Declared(AttrTimespan)) =>
      Failed(l, "NotImplementedError") /\ Untouched(l)

\* C6 amended: a range query against a resolver that declares a collection
\* span fails before the resolver or the file system is touched: with the
\* configuration error when neither a step nor a default interval is there,
\* with NotImplementedError otherwise.
C6_Windowed ==
  \A l \in Loaders :
    (IsRange(l) /\ Declared(AttrTimespan)) =>
      /\ Untouched(l)
      /\ IF proc[l].query.step = None /\ ~Declared(AttrInterval)
         THEN Failed(l, "Exception")
         ELSE Failed(l, "NotImplementedError")

\* a range query with a step has met a declared collection span
C6_Witness ==
  \E l \in Loaders :
    /\ IsRange(l)
    /\ Declared(AttrTimespan)
    /\ proc[l].query.step # None
    /\ Failed(l, "NotImplementedError")

\* C7: a resolver that declares neither attribute is accepted: a query for
\* one analysis time, or a range query with a step, does not fail on the
\* missing attribute and goes on to resolve the files.
C7_OptionalAttributes ==
  \A l \in Loaders :
    ( /\ Active(l)
      /\ DOMAIN resolver.attrs = {}
      /\ proc[l].query.kind = "instant" \/ proc[l].query.step # None ) =>
      /\ ~Failed(l, "AttributeError")
      /\ proc[l].query.kind = "instant" => proc[l].called # << >>

\* the directory of a source file without one leading separator
StripLeadingSeparator(s) == IF s # << >> /\ Head(s) = Slash THEN Tail(s) ELSE s

\* C8: the index of a file is <directory>/<name>.index.json, the directory
\* being that of the file or, under an index root, the root joined with the
\* directory of the file without its leading separator; distinct files have
\* distinct indexes.
C8_IndexPath ==
  \A l \in Loaders :
    \A i \in 1..Len(proc[l].tasks) :
      proc[l].tasks[i].idx # None =>
        LET fp == proc[l].fps_grib[i]
            idx == proc[l].tasks[i].idx[1]
        IN  /\ Name(idx) = Name(fp) \o IndexSuffix
            /\ Str(Parent(idx)) =
                 IF root = None THEN Str(Parent(fp))
                 ELSE Str(root[1]) \o << Slash >>
                        \o StripLeadingSeparator(Str(Parent(fp)))
            /\ \A j \in 1..Len(proc[l].tasks) :
                 (proc[l].tasks[j].idx # None /\ proc[l].fps_grib[j] # fp)
                   => proc[l].tasks[j].idx # proc[l].tasks[i].idx

\* C9: when gribscan.write_index fails for a file, the call ends with that
\* error: nothing is returned, no collection index is written for the
\* analysis time at hand, no later analysis time is resolved, and the call
\* does nothing more.
C9_Abort ==
  /\ [](\A l \in Loaders :
         LET r == proc[l]
         IN  /\ (\E i \in 1..Len(r.tasks) : r.tasks[i].st = "failed") =>
                  (r.pc = "pool" \/ Failed(l, "write_index"))
             /\ Failed(l, "write_index") =>
                  /\ \E i \in 1..Len(r.tasks) : r.tasks[i].st = "failed"
                  /\ r.result = None
                  /\ r.opened = << >>
                  /\ r.ti \notin r.zwrote
                  /\ Len(r.called) = r.ti
                  /\ Len(r.produced) = r.ti - 1)
  /\ [][\A l \in Loaders :
          Failed(l, "write_index") =>
            /\ proc'[l] = proc[l] \/ proc'[l] = Idle
            /\ proc'[l] = proc[l] \/ (files' = files /\ writes' = writes)]_vars

\* the index of a file of the second analysis time of a range has failed
C9_Witness ==
  \E l \in Loaders :
    /\ Failed(l, "write_index")
    /\ proc[l].ti = 2
    /\ Len(proc[l].times) = 3
    /\ 1 \in proc[l].zwrote

\* C10 as stated: every artifact path is written at most once and its
\* content never changes, whatever the interleaving (taken without an index
\* root, where no two files share an index path).
C10_Original ==
  root = None =>
    /\ \A p \in DOMAIN writes : writes[p] <= 1
    /\ mutated = {}

\* C10 amended: an artifact path is written a second time, or has its
\* content changed, only when a worker found it missing while the write of
\* another worker (of the same pool or of an overlapping call) to it was
\* pending; every other path is written at most once and keeps its content.
C10_WriteOnce ==
  /\ \A p \in DOMAIN writes : writes[p] > 1 => p \in raced
  /\ mutated \subseteq raced
  /\ DOMAIN writes = DOMAIN files

\* a later call has reused every artifact and written none
C10_Witness ==
  \E l \in Loaders :
    /\ ncalls = 2
    /\ proc[l].pc = "done"
    /\ proc[l].zwrote = {}
    /\ Len(proc[l].called) = 2
    /\ raced = {}
    /\ \A i \in 1..Len(proc[l].opened) : writes[proc[l].opened[i].src] = 1
====
